---- MODULE Spec2Model ----
(***************************************************************************)
(* git-manager: the commit-move state machine of push_gui.py (action_move) *)
(* and push.py (move_commits), over an abstract git repository.            *)
(*                                                                         *)
(* A branch is the sequence of its commits, oldest first.  A commit is a   *)
(* record: oid (object identity), chg (the change it carries), ad (author  *)
(* date as --date=short prints it, a day number), cd (committer date), au  *)
(* (author identity).                                                      *)
(***************************************************************************)
EXTENDS Integers, Sequences, FiniteSets, TLC

\* ------------------------------------------------------------- bounds
MaxPending == 2
MaxRuns == 1
MaxDay == 2

\* ------------------------------------------------------------ helpers
base_branch == "main"

Range(s) == {s[k] : k \in DOMAIN s}

Changes(h) == {h[k].chg : k \in DOMAIN h}

Commit(oid, chg, ad, cd, au) == [oid |-> oid, chg |-> chg, ad |-> ad, cd |-> cd, au |-> au]

\* git rev-list --reverse a..b : the commits of b that are not commits of a
rev_list(a, b) == SelectSeq(b, LAMBDA c : c \notin Range(a))

\* s[:n]
\* mutant: the slice keeps everything
Take_all(s, n) == s

Take(s, n) == IF n >= Len(s) THEN s ELSE SubSeq(s, 1, n)

\* mutant: the log is not limited
LastN_unlimited(h, k) == h

\* git log -n k on history h, oldest first here (the checks do not depend on order)
LastN(h, k) == IF k >= Len(h) THEN h ELSE SubSeq(h, Len(h) - k + 1, Len(h))

Append2(s, a, b) == Append(Append(s, a), b)

\* ------------------------------------------------------------- state
VARIABLES
    repo,    \* the git repository: heads, refs, HEAD, stash, working tree, origin
    cfg,     \* git configuration and process environment
    clock,   \* the calendar day in UTC and in the local time zone
    state,   \* the RepoState snapshot of the last scan
    mv,      \* the frame of the running (or last) move
    obs      \* history of the run: commands issued, check results, outcome

vars == <<repo, cfg, clock, state, mv, obs>>

Branches == {"main", "local_commit"}

mainline(r) == r.heads[base_branch]

local_commit(r) == r.heads["local_commit"]

HeadHist(r) == r.heads[r.HEAD]

\* ------------------------------------------------ git, the external tool
\* git diff --quiet && git diff --cached --quiet
is_clean(r) == ~r.dirty /\ ~r.unmerged

\* git checkout <branch>: refused for a missing branch or an unmerged index
checkout_ok(r, b) == b \in r.refs /\ ~r.unmerged

\* switching branches cancels a cherry-pick in progress
checkout(r, b) == [r EXCEPT !.HEAD = b, !.inprog = @ \ {"CHERRY_PICK_HEAD"}]

\* git stash push -u: refused with an unmerged index
stash_ok(r) == ~r.unmerged

\* git stash push -u: no entry is made when there is nothing to save
stash(r, owner) ==
    IF r.dirty \/ r.untracked
    THEN [r EXCEPT !.stash = <<[owner |-> owner, dirty |-> r.dirty,
                                untracked |-> r.untracked]>> \o @,
                   !.dirty = FALSE, !.untracked = FALSE]
    ELSE r

\* git stash pop, when it succeeds: the newest entry is applied and dropped
pop_stash(r) ==
    [r EXCEPT !.stash = Tail(@),
              !.dirty = @ \/ r.stash[1].dirty,
              !.untracked = @ \/ r.stash[1].untracked]

\* git stash pop can succeed only when there is an entry; it may also conflict
pop_stash_outcomes(r) == IF r.stash = <<>> THEN {FALSE} ELSE {TRUE, FALSE}

\* git cherry-pick --abort / --skip need CHERRY_PICK_HEAD, which a
\* cherry-pick --no-commit never writes
sequencer_ok(r) == "CHERRY_PICK_HEAD" \in r.inprog

\* git cherry-pick --abort, when it succeeds
cherry_pick_abort(r) ==
    [r EXCEPT !.inprog = @ \ {"CHERRY_PICK_HEAD"}, !.unmerged = FALSE]

\* what a cherry-pick of commit c onto the checked-out branch can do
\* (empty when its change is already there; the same conflict again when the
\* branch holds the commit resolved to its own side)
cherry_pick_outcomes(r, c) ==
    IF c.chg \in Changes(HeadHist(r)) THEN {"empty"}
    ELSE IF (0 - c.chg) \in Changes(HeadHist(r)) THEN {"conflict"}
    ELSE {"applied", "conflict", "fail_nothing", "fail_other"}

\* mutant: the commit takes the time of the commit command for both dates
commit_at_current_time(r, chg, ad, cd, au) ==
    [r EXCEPT !.heads[r.HEAD] = Append(@, Commit(r.next_oid, chg, clock.utc, clock.utc, au)),
              !.next_oid = @ + 1]

\* git commit on the checked-out branch, with GIT_AUTHOR_DATE ad and
\* GIT_COMMITTER_DATE cd
commit(r, chg, ad, cd, au) ==
    [r EXCEPT !.heads[r.HEAD] = Append(@, Commit(r.next_oid, chg, ad, cd, au)),
              !.next_oid = @ + 1]

\* the author git commit records: the environment overrides the configuration
author(c) ==
    [name |-> IF c.GIT_AUTHOR_NAME # "" THEN c.GIT_AUTHOR_NAME ELSE c.user_name,
     email |-> c.user_email]

\* mutant: the reset does not move the branch
reset_hard_keeps_branch(r, target) ==
    [r EXCEPT !.dirty = FALSE, !.unmerged = FALSE, !.inprog = {}]

\* mutant: the reset stops one commit short of the target
reset_hard_one_behind(r, target) ==
    [r EXCEPT !.heads[r.HEAD] = IF target = <<>> THEN <<>>
                                ELSE SubSeq(target, 1, Len(target) - 1),
              !.dirty = FALSE, !.unmerged = FALSE, !.inprog = {}]

\* mutant: the reset moves the base branch to the checked-out branch
reset_hard_swapped(r, target) ==
    [r EXCEPT !.heads[base_branch] = r.heads[r.HEAD],
              !.dirty = FALSE, !.unmerged = FALSE, !.inprog = {}]

\* git reset --hard <base> on the checked-out branch
reset_hard(r, target) ==
    [r EXCEPT !.heads[r.HEAD] = target, !.dirty = FALSE, !.unmerged = FALSE,
              !.inprog = {}]

\* the reflog of local_commit, newest entry first: git adds an entry with the
\* new tip and a message whenever the branch moves
log_ref(r, msg) ==
    IF r.reflog # <<>> /\ r.reflog[1].tip = r.heads["local_commit"] THEN r
    ELSE [r EXCEPT !.reflog = <<[tip |-> r.heads["local_commit"], msg |-> msg]>> \o @]

\* ------------------------------------------------------- initial states
C0 == Commit(0, 0, 0, 0, [name |-> "other", email |-> "other@x"])

\* pending commit k of local_commit; commit dup (if any) repeats the change of C0
Pending(n, dup) ==
    [k \in 1..n |-> Commit(k, IF k = dup THEN 0 ELSE k, 0, 0,
                           [name |-> "me", email |-> "me@x"])]

\* the reflog of a local_commit with history lc whose last n commits were made
\* on it after it was created
InitReflog(lc, n) ==
    [k \in 1..n |-> [tip |-> SubSeq(lc, 1, Len(lc) - k + 1), msg |-> "commit"]]
    \o (IF Len(lc) > n
        THEN <<[tip |-> SubSeq(lc, 1, Len(lc) - n), msg |-> "branch: Created from"]>>
        ELSE <<>>)

InitRepo(n, dup, refs, head, st, d, u, ip) ==
    [heads |-> [b \in Branches |->
                    IF b \notin refs THEN <<>>
                    ELSE IF b = "main" THEN <<C0>>
                    ELSE (IF "main" \in refs THEN <<C0>> ELSE <<>>) \o Pending(n, dup)],
     refs |-> refs, HEAD |-> head, stash |-> st,
     dirty |-> d, untracked |-> u, unmerged |-> (ip # {}), inprog |-> ip,
     origin |-> <<C0>>, backups |-> <<>>, next_oid |-> n + 1,
     reflog |-> IF "local_commit" \notin refs THEN <<>>
                ELSE InitReflog((IF "main" \in refs THEN <<C0>> ELSE <<>>) \o Pending(n, dup),
                                n)]

OldStash == [owner |-> "user", dirty |-> TRUE, untracked |-> FALSE]

NewFrame(mode) ==
    [pc |-> "idle", mode |-> mode, pending |-> 0, kp |-> <<"0">>, num |-> 0,
     step_mode |-> FALSE, stashed |-> FALSE, commits |-> <<>>, processed |-> <<>>,
     i |-> 1, now_iso_value |-> 0, choice |-> "none", remaining |-> <<>>, j |-> 1]

\* what a run remembers of the repository as it was when the run began
Snapshot(r) ==
    [mainline |-> mainline(r), local_commit |-> local_commit(r), stash |-> r.stash,
     HEAD |-> r.HEAD, backups |-> r.backups, refs |-> r.refs, inprog |-> r.inprog,
     clean |-> is_clean(r), origin |-> r.origin]

NoChecks == [remote |-> "none", date |-> "none", ident |-> "none"]

NewObs(o, r) ==
    [runs |-> o.runs + 1, pre |-> Snapshot(r), cmds |-> <<>>, chk |-> NoChecks,
     outcome |-> "running", pushed |-> FALSE, warnings |-> {}, remote_head |-> "none",
     inspected |-> <<>>, declined |-> FALSE, nested |-> <<>>,
     restored |-> FALSE]

\* RepoScanner.scan, for the one repository of the model
scan(r) ==
    [base_branch |-> base_branch, current_branch |-> r.HEAD,
     local_exists |-> "local_commit" \in r.refs]

Init ==
    \E n \in 0..MaxPending, dup \in 0..MaxPending, refs \in SUBSET Branches,
       head \in Branches, st \in {<<>>, <<OldStash>>}, d \in BOOLEAN, u \in BOOLEAN,
       ip \in {{}, {"MERGE_HEAD"}, {"CHERRY_PICK_HEAD"}, {"rebase-merge"}},
       nm \in {"", "me"}, em \in {"", "me@x"}, an \in {"", "env"}, loc \in 1..2,
       snap \in Branches :
        /\ dup <= n
        /\ head \in refs
        /\ (ip # {}) => ~u
        \* a repository that fails a precondition is otherwise the plain one
        /\ (refs # Branches \/ nm = "" \/ em = "")
              => (n = 1 /\ dup = 0 /\ st = <<>> /\ ~d /\ ~u /\ ip = {} /\ an = "" /\ loc = 1)
        /\ (an # "") => (st = <<>> /\ ~d /\ ~u /\ ip = {} /\ head = "local_commit")
        \* a leftover operation in progress is tried on the one-commit repository
        /\ (ip # {}) => (n = 1 /\ dup = 0 /\ st = <<>> /\ loc = 1)
        \* the snapshot is older than HEAD after a move that failed: no refresh_repos
        /\ (snap # head) => (refs = Branches /\ nm # "" /\ em # "" /\ n = 1
                              /\ st = <<>> /\ ~u /\ ip = {} /\ an = "" /\ loc = 1)
        /\ repo = InitRepo(n, dup, refs, head, st, d, u, ip)
        /\ cfg = [user_name |-> nm, user_email |-> em, GIT_AUTHOR_NAME |-> an]
        /\ clock = [utc |-> 1, loc |-> loc]
        /\ state = [scan(repo) EXCEPT !.current_branch = snap]
        /\ mv = NewFrame("gui")
        /\ obs = [runs |-> 0, pre |-> Snapshot(repo), cmds |-> <<>>, chk |-> NoChecks,
                  outcome |-> "none", pushed |-> FALSE, warnings |-> {},
                  remote_head |-> "none", inspected |-> <<>>, declined |-> FALSE,
                  nested |-> <<>>, restored |-> FALSE]

\* ----------------------------------------------------- small operators
Cmd(o, c) == [o EXCEPT !.cmds = Append(@, c)]

Cmds(o, cs) == [o EXCEPT !.cmds = @ \o cs]

Warn(o, w) == [o EXCEPT !.warnings = @ \cup {w}]

\* the except handler of action_move / the error exit of move_commits
Failed(o) == [o EXCEPT !.outcome = "failed"]

Return(m) == [m EXCEPT !.pc = "idle"]

\* GitConfig.ensure_identity: an unset key makes git config fail, an empty one is refused
ensure_identity(c) == c.user_name # "" /\ c.user_email # ""

\* -------------------------------------------------- NumericKeypadDialog
KeyDigits == {"0", "1", "2", "3", "4"}

DigitVal(k) ==
    CASE k = "0" -> 0 [] k = "1" -> 1 [] k = "2" -> 2 [] k = "3" -> 3 [] k = "4" -> 4
      [] k = "5" -> 5 [] k = "6" -> 6 [] k = "7" -> 7 [] k = "8" -> 8 [] k = "9" -> 9

\* int(value_var.get())
RECURSIVE IntOf(_)
IntOf(s) == IF s = <<>> THEN 0
            ELSE 10 * IntOf(SubSeq(s, 1, Len(s) - 1)) + DigitVal(s[Len(s)])

\* NumericKeypadDialog._on_key: the new displayed value
on_key(current, key, maxvalue) ==
    IF key = "C" THEN <<"0">>
    ELSE IF key = "BS"
         THEN (IF Len(current) > 1 THEN SubSeq(current, 1, Len(current) - 1) ELSE <<"0">>)
    ELSE IF current = <<"0">> THEN <<key>>
    ELSE IF IntOf(Append(current, key)) <= maxvalue THEN Append(current, key)
    ELSE current

\* NumericKeypadDialog._on_ok: the value is accepted
on_ok(current, minvalue, maxvalue) ==
    minvalue <= IntOf(current) /\ IntOf(current) <= maxvalue

\* ------------------------------------------ GitManagerGUI.action_move
\* mutant: the identity is not checked
preconditions_without_identity(c, r, st) ==
    /\ "local_commit" \in r.refs
    /\ st.base_branch \in r.refs

\* lines 431-434: identity, local_commit, and the rev-list that needs the base branch
preconditions(c, r, st) ==
    /\ ensure_identity(c)
    /\ "local_commit" \in r.refs
    /\ st.base_branch \in r.refs

\* where the move goes once the count (and the step mode) is known: line 459
AfterSelection(r) == IF is_clean(r) THEN "select" ELSE "ask_stash"

\* the head of the replay loop, lines 482-489
LoopPc(m) ==
    IF m.i > Len(m.commits) THEN (IF m.mode = "gui" THEN "after_loop" ELSE "validate")
    ELSE IF m.step_mode THEN "ask_apply"
    ELSE "cherry_pick"

\* lines 425-437: the preconditions and the re-derived pending count
action_move ==
    /\ mv.pc = "idle"
    /\ obs.runs < MaxRuns
    /\ LET pending == Len(rev_list(mainline(repo), local_commit(repo)))
           ok == preconditions(cfg, repo, state)
       IN  /\ mv' = IF ok /\ pending > 0
                    THEN [NewFrame("gui") EXCEPT !.pc = "dialog", !.pending = pending]
                    ELSE NewFrame("gui")
           /\ obs' = IF ~ok THEN Failed(NewObs(obs, repo))
                     ELSE IF pending = 0
                          THEN [NewObs(obs, repo) EXCEPT !.outcome = "nocommits"]
                     ELSE NewObs(obs, repo)
    /\ UNCHANGED <<repo, cfg, clock, state>>

\* lines 439-446, a key of the keypad
dialog_on_key ==
    /\ mv.pc = "dialog"
    /\ \E key \in KeyDigits \cup {"C", "BS"} :
          mv' = [mv EXCEPT !.kp = on_key(mv.kp, key, mv.pending)]
    /\ UNCHANGED <<repo, cfg, clock, state, obs>>

\* lines 127-133 and 447-456: OK closes the dialog only on a value in range
dialog_on_ok ==
    /\ mv.pc = "dialog"
    /\ on_ok(mv.kp, 1, mv.pending)
    /\ mv' = [mv EXCEPT !.num = IntOf(mv.kp),
                        !.pc = IF IntOf(mv.kp) > 1 THEN "ask_step"
                               ELSE AfterSelection(repo)]
    /\ UNCHANGED <<repo, cfg, clock, state, obs>>

\* lines 139-142 and 448-449: Cancel
dialog_on_cancel ==
    /\ mv.pc = "dialog"
    /\ mv' = Return(mv)
    /\ obs' = [obs EXCEPT !.outcome = "cancelled"]
    /\ UNCHANGED <<repo, cfg, clock, state>>

\* lines 452-456: the step-mode question
ask_step ==
    /\ mv.pc = "ask_step"
    /\ \E ans \in BOOLEAN :
          mv' = [mv EXCEPT !.step_mode = ans, !.pc = AfterSelection(repo)]
    /\ UNCHANGED <<repo, cfg, clock, state, obs>>

\* mutant: the answer is not looked at
on_stash_answer_ignored(m, ans) == [m EXCEPT !.pc = "abort_ops"]

\* lines 460-466: No returns at once, Yes goes on to _abort_in_progress_ops
on_stash_answer(m, ans) == IF ans THEN [m EXCEPT !.pc = "abort_ops"] ELSE Return(m)

\* lines 459-465: the stash question of a tree that is not clean
ask_stash ==
    /\ mv.pc = "ask_stash"
    /\ mv.mode = "gui"
    /\ \E ans \in BOOLEAN :
          /\ mv' = on_stash_answer(mv, ans)
          /\ obs' = IF ans THEN obs
                    ELSE [obs EXCEPT !.outcome = "cancelled", !.declined = TRUE]
    /\ UNCHANGED <<repo, cfg, clock, state>>

\* mutant: nothing in progress is aborted
AbortCmds_none(ip) == <<>>

\* the abort commands _abort_in_progress_ops issues, in its order
AbortCmds(ip) ==
    (IF "MERGE_HEAD" \in ip THEN <<"merge --abort">> ELSE <<>>)
    \o (IF "CHERRY_PICK_HEAD" \in ip THEN <<"cherry-pick --abort">> ELSE <<>>)
    \o (IF "rebase-merge" \in ip THEN <<"rebase --abort">> ELSE <<>>)

\* lines 329-345 and 466: every abort may fail, which is only reported
abort_in_progress_ops ==
    /\ mv.pc = "abort_ops"
    /\ \E done \in SUBSET repo.inprog :
          /\ repo' = [repo EXCEPT !.inprog = @ \ done,
                                  !.unmerged = @ /\ (repo.inprog \ done) # {}]
          /\ obs' = [Cmds(obs, AbortCmds(repo.inprog)) EXCEPT
                        !.warnings = @ \cup {"abort failed" : x \in repo.inprog \ done}]
    /\ mv' = [mv EXCEPT !.pc = "stash"]
    /\ UNCHANGED <<cfg, clock, state>>

\* lines 467-468: WorkingTreeManager.stash, then stashed = True
stash_changes ==
    /\ mv.pc = "stash"
    /\ IF stash_ok(repo)
       THEN /\ repo' = stash(repo, "move")
            /\ mv' = [mv EXCEPT !.stashed = TRUE, !.pc = "select"]
            /\ obs' = Cmd(obs, "stash push")
       ELSE /\ repo' = repo
            /\ mv' = Return(mv)
            /\ obs' = Failed(Cmd(obs, "stash push"))
    /\ UNCHANGED <<cfg, clock, state>>

\* lines 470-481: the working set, the checkout of the base branch, the start time
select_commits ==
    /\ mv.pc = "select"
    /\ LET commits == Take(rev_list(mainline(repo), local_commit(repo)), mv.num)
           m == [mv EXCEPT !.commits = commits, !.now_iso_value = clock.utc, !.i = 1]
       IN  IF commits = <<>>
           THEN /\ repo' = repo
                /\ mv' = Return(m)
                /\ obs' = Failed(obs)
           ELSE IF checkout_ok(repo, state.base_branch)
           THEN /\ repo' = checkout(repo, state.base_branch)
                /\ mv' = [m EXCEPT !.pc = LoopPc(m)]
                /\ obs' = Cmd(obs, "checkout")
           ELSE /\ repo' = repo
                /\ mv' = Return(m)
                /\ obs' = Failed(Cmd(obs, "checkout"))
    /\ UNCHANGED <<cfg, clock, state>>

\* mutant: the loop goes back to its head without moving on
Advance_in_place(m) == [m EXCEPT !.pc = LoopPc(m)]

\* i += 1 and back to the head of the loop
Advance(m) ==
    LET n == [m EXCEPT !.i = @ + 1] IN [n EXCEPT !.pc = LoopPc(n)]

\* git status --short after a cherry-pick that changed nothing: lists untracked files
status_short_empty(r) == ~r.untracked

\* "nothing to commit" in git status: not printed when untracked files are present
nothing_to_commit(r) == ~r.untracked

\* mutant: No skips only the commit asked about
on_apply_answer_skipping(m, ans) ==
    IF ans THEN [m EXCEPT !.pc = "cherry_pick"] ELSE Advance(m)

\* lines 485-489: Yes goes on to the cherry-pick, No is the break out of the loop
on_apply_answer(m, ans) ==
    [m EXCEPT !.pc = IF ans THEN "cherry_pick" ELSE "after_loop"]

\* lines 483-489: the per-commit question of step mode; No leaves the loop
ask_apply ==
    /\ mv.pc = "ask_apply"
    /\ \E ans \in BOOLEAN : mv' = on_apply_answer(mv, ans)
    /\ UNCHANGED <<repo, cfg, clock, state, obs>>

\* lines 490-492 and 537-557: cherry-pick --no-commit and what follows without conflict
cherry_pick ==
    /\ mv.pc = "cherry_pick"
    /\ mv.mode = "gui"
    /\ LET c == mv.commits[mv.i] IN
       \E out \in cherry_pick_outcomes(repo, c) :
          CASE out = "applied" ->
                 /\ repo' = commit(repo, c.chg, mv.now_iso_value, mv.now_iso_value, author(cfg))
                 /\ mv' = Advance([mv EXCEPT !.processed = Append(@, c)])
                 /\ obs' = Cmds(obs, <<"cherry-pick", "commit">>)
            [] out = "empty" ->
                 IF status_short_empty(repo)
                 THEN /\ repo' = repo
                      /\ mv' = Advance(mv)
                      /\ obs' = Cmd(obs, "cherry-pick")
                 ELSE /\ repo' = repo
                      /\ mv' = Return(mv)
                      /\ obs' = Failed(Cmds(obs, <<"cherry-pick", "commit">>))
            [] out = "conflict" ->
                 /\ repo' = [repo EXCEPT !.unmerged = TRUE]
                 /\ mv' = [mv EXCEPT !.pc = "ask_conflict"]
                 /\ obs' = Cmd(obs, "cherry-pick")
            [] out = "fail_nothing" ->
                 IF nothing_to_commit(repo) /\ sequencer_ok(repo)
                 THEN /\ repo' = repo
                      /\ mv' = Advance(mv)
                      /\ obs' = Cmds(obs, <<"cherry-pick", "cherry-pick --skip">>)
                 ELSE /\ repo' = repo
                      /\ mv' = Return(mv)
                      /\ obs' = Failed(Cmds(obs,
                            IF nothing_to_commit(repo)
                            THEN <<"cherry-pick", "cherry-pick --skip">>
                            ELSE <<"cherry-pick">>))
            [] out = "fail_other" ->
                 /\ repo' = repo
                 /\ mv' = Return(mv)
                 /\ obs' = Failed(Cmd(obs, "cherry-pick"))
    /\ UNCHANGED <<cfg, clock, state>>

\* lines 347-365: the answer to the conflict prompt
choose_conflict_resolution(ans) ==
    CASE ans = "1" -> "ours"
      [] ans = "2" -> "theirs"
      [] ans = "3" -> "abort"
      [] ans = "4" -> "skip"
      [] OTHER -> "raise"

ConflictAnswers == {"", "1", "2", "3", "4", "x"}

\* git cherry-pick --abort as the conflict branches run it
TryAbort(r) == IF sequencer_ok(r) THEN cherry_pick_abort(r) ELSE r

\* the change a commit resolved with --ours carries: not the picked change
OursChg(c) == 0 - c.chg

\* lines 493-536: the conflict prompt and its four resolutions
ask_conflict ==
    /\ mv.pc = "ask_conflict"
    /\ LET c == mv.commits[mv.i]
           resolved == [repo EXCEPT !.unmerged = FALSE]
       IN
       \E ans \in ConflictAnswers, rest \in BOOLEAN :
          LET choice == choose_conflict_resolution(ans)
              mc == [mv EXCEPT !.choice = choice]
          IN
          CASE choice = "ours" /\ rest ->
                 /\ repo' = commit(resolved, OursChg(c), mv.now_iso_value, mv.now_iso_value, author(cfg))
                 /\ mv' = Advance([mc EXCEPT !.processed = Append(@, c)])
                 /\ obs' = Cmds(obs, <<"checkout --ours", "add", "commit">>)
            [] choice = "ours" /\ ~rest ->
                 \* nothing is staged once every conflicted file is taken from HEAD
                 /\ repo' = resolved
                 /\ mv' = Return(mc)
                 /\ obs' = Failed(Cmds(obs, <<"checkout --ours", "add", "commit">>))
            [] choice = "theirs" ->
                 /\ rest
                 /\ repo' = commit(resolved, c.chg, mv.now_iso_value, mv.now_iso_value, author(cfg))
                 /\ mv' = Advance([mc EXCEPT !.processed = Append(@, c)])
                 /\ obs' = Cmds(obs, <<"checkout --theirs", "add", "commit">>)
            [] choice = "skip" ->
                 /\ rest
                 /\ repo' = TryAbort(repo)
                 /\ mv' = IF sequencer_ok(repo) THEN Advance(mc) ELSE Return(mc)
                 /\ obs' = IF sequencer_ok(repo) THEN Cmd(obs, "cherry-pick --abort")
                           ELSE Failed(Cmd(obs, "cherry-pick --abort"))
            [] choice \in {"abort", "raise"} ->
                 /\ rest
                 /\ repo' = TryAbort(repo)
                 /\ mv' = Return(mc)
                 /\ obs' = Failed(Cmd(obs, "cherry-pick --abort"))
    /\ UNCHANGED <<cfg, clock, state>>

\* lines 559-572: nothing processed is a no-op, otherwise on to validation
after_loop ==
    /\ mv.pc = "after_loop"
    /\ IF mv.processed # <<>>
       THEN /\ mv' = [mv EXCEPT !.pc = "validate"]
            /\ UNCHANGED <<repo, obs>>
       ELSE IF ~checkout_ok(repo, state.current_branch)
       THEN /\ repo' = repo
            /\ mv' = Return(mv)
            /\ obs' = Failed(Cmd(obs, "checkout"))
       ELSE LET r == checkout(repo, state.current_branch) IN
            /\ mv' = Return(mv)
            /\ IF mv.stashed
               THEN \E ok \in pop_stash_outcomes(r) :
                       /\ repo' = IF ok THEN pop_stash(r) ELSE r
                       /\ obs' = [(IF ok THEN Cmds(obs, <<"checkout", "stash pop">>)
                                   ELSE Warn(Cmds(obs, <<"checkout", "stash pop">>),
                                             "stash pop failed"))
                                  EXCEPT !.outcome = "noop"]
               ELSE /\ repo' = r
                    /\ obs' = [Cmd(obs, "checkout") EXCEPT !.outcome = "noop"]
    /\ UNCHANGED <<cfg, clock, state>>

\* ----------------------------------------------------- pre-push validation
\* git remote show origin: the command fails, prints no "HEAD branch:" line,
\* or prints one with this value after the colon
RemoteShowOutputs == {"error", "no HEAD branch line", "", "main", "release", "(unknown)"}

has_head_line(out) == out \notin {"error", "no HEAD branch line"}

\* lines 577-585: raises only for a non-empty value that differs from the base branch
remote_check(out, base) == ~(has_head_line(out) /\ out # "" /\ out # base)

\* lines 588-592: the commits whose --date=short differs from today
bad_dates(log, today) == SelectSeq(log, LAMBDA c : c.ad # today)

\* lines 595-600: author email and name against the configured identity
authors_match(log, expected_email, expected_name) ==
    /\ \A c \in Range(log) : c.au.email = expected_email
    /\ \A c \in Range(log) : c.au.name = expected_name

\* the three checks in the order of the code; a check after a failed one is not run
Checks(out, log, today, c, base) ==
    LET r1 == out # "error" /\ remote_check(out, base)
        r2 == bad_dates(log, today) = <<>>
        r3 == authors_match(log, c.user_email, c.user_name)
    IN  [remote |-> IF r1 THEN "pass" ELSE "fail",
         date |-> IF ~r1 THEN "none" ELSE IF r2 THEN "pass" ELSE "fail",
         ident |-> IF ~r1 \/ ~r2 THEN "none" ELSE IF r3 THEN "pass" ELSE "fail"]

\* mutant: the result of the date and identity checks is dropped
may_push_remote_only(chk) == chk.remote = "pass"

\* the push is reached only when no check raised
may_push(chk) == chk.remote = "pass" /\ chk.date = "pass" /\ chk.ident = "pass"

\* now_iso()[:10], the UTC day
today_str == clock.utc

\* lines 574-602: the three checks over the last processed_count commits
validate ==
    /\ mv.pc = "validate"
    /\ mv.mode = "gui"
    /\ \E out \in RemoteShowOutputs :
          LET log == LastN(HeadHist(repo), Len(mv.processed))
              chk == Checks(out, log, today_str, cfg, state.base_branch)
          IN  /\ obs' = [obs EXCEPT !.chk = chk, !.remote_head = out, !.inspected = log,
                                    !.outcome = IF may_push(chk) THEN @ ELSE "failed"]
              /\ mv' = IF may_push(chk) THEN [mv EXCEPT !.pc = "push"] ELSE Return(mv)
    /\ UNCHANGED <<repo, cfg, clock, state>>

\* mutant: the failure of the push is swallowed
after_push_ignoring_failure(m, ok) ==
    [m EXCEPT !.pc = IF m.mode = "gui" THEN "backup" ELSE "reconcile"]

\* mutant: a failed push is tried again
after_push_retrying(m, ok) ==
    IF ok THEN [m EXCEPT !.pc = IF m.mode = "gui" THEN "backup" ELSE "reconcile"]
    ELSE m

\* lines 604-608 (push.py 297-300): a failed push raises, a successful one goes on
after_push(m, ok) ==
    IF ok THEN [m EXCEPT !.pc = IF m.mode = "gui" THEN "backup" ELSE "reconcile"]
    ELSE Return(m)

\* the branch that git push origin <base> sends
r_base(r, st) == r.heads[st.base_branch]

\* lines 603-605: git push origin <base>
push ==
    /\ mv.pc = "push"
    /\ \E ok \in BOOLEAN :
          /\ repo' = IF ok THEN [repo EXCEPT !.origin = r_base(repo, state)] ELSE repo
          /\ mv' = after_push(mv, ok)
          /\ obs' = IF ok THEN [Cmd(obs, "push") EXCEPT !.pushed = TRUE]
                    ELSE Failed(Cmd(obs, "push"))
    /\ UNCHANGED <<cfg, clock, state>>

\* ------------------------------------------------- staging reconciliation
\* mutant: the reconciliation starts without a backup attempt
backup_skipped ==
    /\ mv.pc = "backup"
    /\ mv' = [mv EXCEPT !.pc = "reconcile"]
    /\ UNCHANGED <<repo, obs, cfg, clock, state>>

\* lines 367-374 and 608: git branch backup_local_commit_<time> local_commit
backup_local_commit ==
    /\ mv.pc = "backup"
    /\ \E ok \in BOOLEAN :
          /\ repo' = IF ok THEN [repo EXCEPT !.backups = Append(@, local_commit(repo))]
                     ELSE repo
          /\ obs' = IF ok THEN Cmd(obs, "branch")
                    ELSE Warn(Cmd(obs, "branch"), "backup failed")
    /\ mv' = [mv EXCEPT !.pc = "reconcile"]
    /\ UNCHANGED <<cfg, clock, state>>

\* the head of the reconciliation loop, line 615
RecPc(m) == IF m.j > Len(m.remaining) THEN "restore" ELSE "reconcile_loop"

RecAdvance(m) ==
    LET n == [m EXCEPT !.j = @ + 1] IN [n EXCEPT !.pc = RecPc(n)]

\* lines 609-614 and 631-634: remaining, checkout local_commit, reset --hard <base>
reconcile ==
    /\ mv.pc = "reconcile"
    /\ LET remaining == rev_list(mainline(repo), local_commit(repo))
           m == [mv EXCEPT !.remaining = remaining, !.j = 1]
       IN  IF checkout_ok(repo, "local_commit")
           THEN /\ repo' = log_ref(reset_hard(checkout(repo, "local_commit"), mainline(repo)),
                                    "reset: moving to main")
                /\ mv' = [m EXCEPT !.pc = RecPc(m)]
                /\ obs' = Cmds(obs, <<"checkout", "reset">>)
           ELSE /\ repo' = repo
                /\ mv' = Return(m)
                /\ obs' = Failed(Cmd(obs, "checkout"))
    /\ UNCHANGED <<cfg, clock, state>>

\* lines 615-629: cherry-pick of one remaining commit onto the rewritten local_commit
reconcile_loop ==
    /\ mv.pc = "reconcile_loop"
    /\ mv.mode = "gui"
    /\ LET c == mv.remaining[mv.j] IN
       \E out \in cherry_pick_outcomes(repo, c) :
          CASE out = "applied" ->
                 /\ repo' = log_ref(commit(repo, c.chg, c.ad, clock.utc, c.au), "cherry-pick")
                 /\ mv' = RecAdvance(mv)
                 /\ obs' = Cmd(obs, "cherry-pick")
            [] out = "empty" /\ nothing_to_commit(repo) ->
                 \* the empty pick stops with CHERRY_PICK_HEAD written: --skip works
                 /\ repo' = repo
                 /\ mv' = RecAdvance(mv)
                 /\ obs' = Cmds(obs, <<"cherry-pick", "cherry-pick --skip">>)
            [] out = "fail_nothing" /\ nothing_to_commit(repo) ->
                 /\ repo' = repo
                 /\ mv' = Return(mv)
                 /\ obs' = Failed(Cmds(obs, <<"cherry-pick", "cherry-pick --skip">>))
            [] OTHER ->
                 /\ repo' = repo
                 /\ mv' = Return(mv)
                 /\ obs' = Failed(Cmds(obs, <<"cherry-pick", "cherry-pick --abort">>))
    /\ UNCHANGED <<cfg, clock, state>>

\* lines 637-645: back to the original branch, stash pop, refresh_repos
restore_stash ==
    /\ mv.pc = "restore"
    /\ IF ~mv.stashed
       THEN /\ repo' = repo
            /\ mv' = Return(mv)
            /\ obs' = [obs EXCEPT !.outcome = "completed"]
            /\ state' = scan(repo)
       ELSE IF ~checkout_ok(repo, state.current_branch)
       THEN /\ repo' = repo
            /\ mv' = Return(mv)
            /\ obs' = Failed(Cmd(obs, "checkout"))
            /\ state' = state
       ELSE LET r == checkout(repo, state.current_branch) IN
            \E ok \in pop_stash_outcomes(r) :
               /\ repo' = IF ok THEN pop_stash(r) ELSE r
               /\ mv' = Return(mv)
               /\ obs' = [(IF ok THEN Cmds(obs, <<"checkout", "stash pop">>)
                           ELSE Warn(Cmds(obs, <<"checkout", "stash pop">>),
                                     "stash pop failed"))
                          EXCEPT !.outcome = "completed"]
               /\ state' = scan(repo')
    /\ UNCHANGED <<cfg, clock>>

\* ------------------------------------------------ push.py: move_commits
\* repo_menu line 328 (ensure_git_identity) and move_commits lines 206-209
cli_preconditions(c, r, base) ==
    /\ ensure_identity(c)
    /\ "local_commit" \in r.refs
    /\ base \in r.refs

\* what the user may type at the count prompt
RawInputs == {<<>>, <<"x">>, <<"-", "1">>} \cup {<<d>> : d \in KeyDigits}

\* str.isdigit
isdigit(raw) == raw # <<>> /\ \A k \in DOMAIN raw : raw[k] \in KeyDigits

\* mutant: zero is let through
valid_count_allowing_zero(raw, refreshed) ==
    /\ isdigit(raw)
    /\ ~(IntOf(raw) > refreshed)

\* lines 220-224: the typed count is accepted
valid_count(raw, refreshed) ==
    /\ isdigit(raw)
    /\ ~(IntOf(raw) <= 0 \/ IntOf(raw) > refreshed)

\* repo_menu action 3 and lines 205-218: preconditions and the refreshed count
move_commits ==
    /\ mv.pc = "idle"
    /\ obs.runs < MaxRuns
    /\ LET refreshed == Len(rev_list(mainline(repo), local_commit(repo)))
           ok == cli_preconditions(cfg, repo, state.base_branch)
       IN  /\ mv' = IF ok /\ refreshed > 0
                    THEN [NewFrame("cli") EXCEPT !.pc = "input", !.pending = refreshed]
                    ELSE NewFrame("cli")
           /\ obs' = IF ~ok THEN Failed(NewObs(obs, repo))
                     ELSE IF refreshed = 0
                          THEN [NewObs(obs, repo) EXCEPT !.outcome = "nocommits"]
                     ELSE NewObs(obs, repo)
    /\ UNCHANGED <<repo, cfg, clock, state>>

\* lines 219-227: the typed count, then the cleanliness test
cli_input ==
    /\ mv.pc = "input"
    /\ \E raw \in RawInputs :
          IF valid_count(raw, mv.pending)
          THEN /\ mv' = [mv EXCEPT !.num = IntOf(raw), !.pc = AfterSelection(repo)]
               /\ obs' = obs
          ELSE /\ mv' = Return(mv)
               /\ obs' = Failed(obs)
    /\ UNCHANGED <<repo, cfg, clock, state>>

\* lines 228-233: the stash question; anything but yes is an error
cli_ask_stash ==
    /\ mv.pc = "ask_stash"
    /\ mv.mode = "cli"
    /\ \E ans \in BOOLEAN :
          IF ans /\ stash_ok(repo)
          THEN /\ repo' = stash(repo, "move")
               /\ mv' = [mv EXCEPT !.stashed = TRUE, !.pc = "select"]
               /\ obs' = Cmd(obs, "stash push")
          ELSE /\ repo' = repo
               /\ mv' = Return(mv)
               /\ obs' = Failed(IF ans THEN Cmd(obs, "stash push")
                                ELSE [obs EXCEPT !.declined = TRUE])
    /\ UNCHANGED <<cfg, clock, state>>

\* lines 242-265: cherry-pick --no-commit, then commit; no test for an empty result
cli_cherry_pick ==
    /\ mv.pc = "cherry_pick"
    /\ mv.mode = "cli"
    /\ LET c == mv.commits[mv.i] IN
       \E out \in cherry_pick_outcomes(repo, c) :
          CASE out = "applied" ->
                 /\ repo' = commit(repo, c.chg, mv.now_iso_value, mv.now_iso_value, author(cfg))
                 /\ mv' = Advance(mv)
                 /\ obs' = Cmds(obs, <<"cherry-pick", "commit">>)
            [] out = "empty" ->
                 \* git commit with nothing staged fails
                 /\ repo' = repo
                 /\ mv' = Return(mv)
                 /\ obs' = Failed(Cmds(obs, <<"cherry-pick", "commit">>))
            [] out = "conflict" ->
                 /\ repo' = TryAbort([repo EXCEPT !.unmerged = TRUE])
                 /\ mv' = Return([mv EXCEPT !.choice = "abort"])
                 /\ obs' = Failed(Cmds(obs, <<"cherry-pick", "cherry-pick --abort">>))
            [] out = "fail_nothing" ->
                 IF nothing_to_commit(repo) /\ sequencer_ok(repo)
                 THEN /\ repo' = repo
                      /\ mv' = Advance(mv)
                      /\ obs' = Cmds(obs, <<"cherry-pick", "cherry-pick --skip">>)
                 ELSE /\ repo' = repo
                      /\ mv' = Return(mv)
                      /\ obs' = Failed(Cmds(obs,
                            IF nothing_to_commit(repo)
                            THEN <<"cherry-pick", "cherry-pick --skip">>
                            ELSE <<"cherry-pick">>))
            [] out = "fail_other" ->
                 /\ repo' = repo
                 /\ mv' = Return(mv)
                 /\ obs' = Failed(Cmd(obs, "cherry-pick"))
    /\ UNCHANGED <<cfg, clock, state>>

\* datetime.now().strftime("%Y-%m-%d"), the local day
today == clock.loc

\* lines 267-295: the three checks over the last num commits
cli_validate ==
    /\ mv.pc = "validate"
    /\ mv.mode = "cli"
    /\ \E out \in RemoteShowOutputs :
          LET log == LastN(HeadHist(repo), mv.num)
              chk == Checks(out, log, today, cfg, state.base_branch)
          IN  /\ obs' = [obs EXCEPT !.chk = chk, !.remote_head = out, !.inspected = log,
                                    !.outcome = IF may_push(chk) THEN @ ELSE "failed"]
              /\ mv' = IF may_push(chk) THEN [mv EXCEPT !.pc = "push"] ELSE Return(mv)
    /\ UNCHANGED <<repo, cfg, clock, state>>

\* lines 304-311: any failing cherry-pick aborts the rewrite
cli_reconcile_loop ==
    /\ mv.pc = "reconcile_loop"
    /\ mv.mode = "cli"
    /\ LET c == mv.remaining[mv.j] IN
       \E out \in cherry_pick_outcomes(repo, c) :
          IF out = "applied"
          THEN /\ repo' = log_ref(commit(repo, c.chg, c.ad, clock.utc, c.au), "cherry-pick")
               /\ mv' = RecAdvance(mv)
               /\ obs' = Cmd(obs, "cherry-pick")
          ELSE /\ repo' = repo
               /\ mv' = Return(mv)
               /\ obs' = Failed(Cmds(obs, <<"cherry-pick", "cherry-pick --abort">>))
    /\ UNCHANGED <<cfg, clock, state>>

\* ------------------------------------------------------------ the clock
\* midnight passes while a move runs, in the local zone first (a zone ahead of UTC)
tick ==
    /\ mv.pc # "idle"
    /\ clock.utc < MaxDay
    /\ clock' = IF clock.loc = clock.utc THEN [clock EXCEPT !.loc = @ + 1]
                ELSE [clock EXCEPT !.utc = @ + 1]
    /\ UNCHANGED <<repo, cfg, state, mv, obs>>

Next ==
    \/ action_move
    \/ dialog_on_key
    \/ dialog_on_ok
    \/ dialog_on_cancel
    \/ ask_step
    \/ ask_stash
    \/ abort_in_progress_ops
    \/ stash_changes
    \/ select_commits
    \/ ask_apply
    \/ cherry_pick
    \/ ask_conflict
    \/ after_loop
    \/ validate
    \/ push
    \/ backup_local_commit
    \/ reconcile
    \/ reconcile_loop
    \/ restore_stash
    \/ move_commits
    \/ cli_input
    \/ cli_ask_stash
    \/ cli_cherry_pick
    \/ cli_validate
    \/ cli_reconcile_loop
    \/ tick

Spec == Init /\ [][Next]_vars

\* ------------------------------------------- the Tk event loop inside a move
\* append_output (lines 321-326) ends with root.update(), which dispatches the
\* events that queued up while git ran: a click on a button starts that
\* button's callback inside the running action_move.  These are the places of
\* action_move that have just called append_output.
UpdatePoints == {"validate", "push", "backup", "reconcile", "restore"}

\* lines 386-402, action_switch started from root.update(): it toggles between
\* local_commit and the base branch by the snapshot, then refresh_repos
update_action_switch ==
    /\ mv.pc \in UpdatePoints
    /\ mv.mode = "gui"
    /\ obs.nested = <<>>
    /\ LET target == IF state.current_branch = "local_commit" THEN state.base_branch
                     ELSE "local_commit"
       IN  /\ repo' = IF checkout_ok(repo, target) THEN checkout(repo, target) ELSE repo
           /\ state' = IF checkout_ok(repo, target) THEN scan(repo') ELSE state
    /\ obs' = [obs EXCEPT !.nested = Append(@, "action_switch")]
    /\ UNCHANGED <<cfg, clock, mv>>

\* lines 293-319, on_closing started from root.update(): switch_all_to_local_commit,
\* refresh_repos, root.destroy(); the move then dies at its next use of a widget
update_on_closing ==
    /\ mv.pc = "validate"
    /\ mv.mode = "gui"
    /\ LET go == state.current_branch # "local_commit"
                    /\ checkout_ok(repo, "local_commit")
       IN  /\ repo' = IF go THEN checkout(repo, "local_commit") ELSE repo
           /\ state' = scan(repo')
    /\ mv' = Return(mv)
    /\ obs' = [obs EXCEPT !.nested = Append(@, "on_closing"), !.outcome = "destroyed"]
    /\ UNCHANGED <<cfg, clock>>

NextUI ==
    \/ Next
    \/ update_action_switch
    \/ update_on_closing

SpecUI == Init /\ [][NextUI]_vars

\* =================================================================== claims
Issued(c) == \E k \in DOMAIN obs.cmds : obs.cmds[k] = c

IsPrefix(a, b) == Len(a) <= Len(b) /\ SubSeq(b, 1, Len(a)) = a

\* the commits the run has added to the local base branch
NewOnMainline == Len(mainline(repo)) - Len(obs.pre.mainline)

\* the commits the replay of this run has committed
Replayed == IF mv.mode = "gui" THEN Len(mv.processed) ELSE mv.i - 1

PendingNow == Len(rev_list(mainline(repo), local_commit(repo)))

PendingBefore == rev_list(obs.pre.mainline, obs.pre.local_commit)

Ended == mv.pc = "idle" /\ obs.runs > 0

AllPassed == obs.chk.remote = "pass" /\ obs.chk.date = "pass" /\ obs.chk.ident = "pass"

SomeFailed == obs.chk.remote = "fail" \/ obs.chk.date = "fail" \/ obs.chk.ident = "fail"

\* C1: the push is issued only after the remote-default-branch check, the date
\* check and the identity check of the same run have all passed; when one of
\* them fails no push is issued and the commits the replay created stay on the
\* local base branch.
C1_PushOnlyAfterChecks ==
    /\ (Issued("push") \/ mv.pc = "push") => AllPassed
    /\ SomeFailed =>
          /\ ~Issued("push") /\ ~obs.pushed /\ mv.pc = "idle"
          /\ IsPrefix(obs.pre.mainline, mainline(repo))
          /\ NewOnMainline = Replayed /\ NewOnMainline > 0
          /\ repo.origin = obs.pre.origin

C1_Witness == obs.pushed /\ AllPassed /\ NewOnMainline > 0

\* C2: as long as the push of the run has not succeeded, local_commit points to
\* the commit it pointed to before the run, no backup branch has been made and
\* no reset has been issued.
C2_StagingUntouchedBeforePush ==
    ~obs.pushed =>
        /\ local_commit(repo) = obs.pre.local_commit
        /\ repo.backups = obs.pre.backups
        /\ ~Issued("reset") /\ ~Issued("branch")

C2_Witness == Ended /\ obs.outcome = "failed" /\ Issued("push") /\ ~obs.pushed

\* C3: a move that created a stash has popped it by the time it returns, on
\* every exit path.
C3_StashPoppedOnEveryExit == (Ended /\ mv.stashed) => Issued("stash pop")

\* C4: while a GUI move runs, no other callback that mutates the repository starts.
C4_NoOverlap == obs.nested = <<>>

\* the originally pending commits that were not processed and whose change the
\* base branch holds: reconciliation skips them as already applied
AlreadyApplied ==
    {k \in DOMAIN PendingBefore :
        /\ PendingBefore[k] \notin Range(mv.processed)
        /\ PendingBefore[k].chg \in Changes(mainline(repo))}

Completed == Ended /\ obs.outcome = "completed" /\ mv.mode = "gui"

\* C5 as stated: after a successful run the base branch has len(processed) new
\* commits, len(processed) <= targetCount, and the pending count equals the one
\* before the run minus len(processed).
C5_PendingDropsByProcessed ==
    Completed =>
        /\ mv.num \in 1..mv.pending
        /\ NewOnMainline = Len(mv.processed)
        /\ Len(mv.processed) <= mv.num
        /\ PendingNow = mv.pending - Len(mv.processed)

\* C5 amended: the pending count after a successful run equals the one before
\* the run minus len(processed) minus the number of pending commits that were
\* not processed because their change was already on the base branch.
C5_PendingDropsByProcessedAndApplied ==
    Completed =>
        /\ mv.num \in 1..mv.pending
        /\ mv.pending = Len(PendingBefore)
        /\ NewOnMainline = Len(mv.processed)
        /\ Len(mv.processed) <= mv.num
        /\ PendingNow = mv.pending - Len(mv.processed) - Cardinality(AlreadyApplied)

C5_Witness == Completed /\ Len(mv.processed) > 0 /\ PendingNow > 0

PreconditionUnmet ==
    \/ cfg.user_name = "" \/ cfg.user_email = ""
    \/ "local_commit" \notin obs.pre.refs
    \/ base_branch \notin obs.pre.refs
    \/ PendingBefore = <<>>

\* C6: a move whose precondition is unmet (no local_commit, no local base
\* branch, no identity, nothing pending) ends without a mutating command and
\* leaves the repository as it was.
C6_NoMutationOnUnmetPrecondition ==
    (obs.runs > 0 /\ PreconditionUnmet) =>
        /\ mv.pc = "idle"
        /\ obs.cmds = <<>>
        /\ obs.outcome \in {"failed", "nocommits"}
        /\ Snapshot(repo) = obs.pre

C6_Witness == Ended /\ cfg.user_email = "" /\ obs.outcome = "failed"

\* C7: the count the replay uses is in [1, pendingCount]; a count of 0, a count
\* above the pending count or a non-numeric input never gets past the prompt,
\* so no command has been issued for it.
C7_CountInRange ==
    /\ (mv.pc \notin {"idle", "dialog", "input"} \/ obs.cmds # <<>>) =>
          /\ 1 <= mv.num /\ mv.num <= mv.pending
          /\ mv.pending = Len(PendingBefore)
    /\ Len(mv.commits) <= mv.num
    /\ mv.pc \in {"dialog", "input"} => obs.cmds = <<>>

C7_Witness ==
    /\ Ended /\ mv.mode = "cli" /\ obs.outcome = "failed"
    /\ mv.pending > 0 /\ mv.num = 0 /\ obs.cmds = <<>>

\* C8: when the tree is not clean and the user declines the stash, the move
\* ends with no command issued: no branch switch, no stash entry, no abort of
\* an operation in progress, no replay; HEAD, both refs and the stash list are
\* as before.
C8_DeclinedStashChangesNothing ==
    obs.declined =>
        /\ mv.pc = "idle"
        /\ ~obs.pre.clean
        /\ obs.cmds = <<>>
        /\ Snapshot(repo) = obs.pre
        /\ mv.processed = <<>> /\ ~mv.stashed

C8_Witness == obs.declined /\ obs.pre.inprog # {} /\ mv.mode = "gui"

\* C9: after a successful push a failing cherry-pick of the reconciliation does
\* not abort the move: the move still restores the stash and ends as completed.
C9_PostPushFailureIsWarning ==
    (Ended /\ obs.pushed /\ mv.j <= Len(mv.remaining)) =>
        /\ obs.outcome = "completed"
        /\ mv.stashed => Issued("stash pop")

\* C10: whenever the push is issued, the default branch the remote advertises
\* is the base branch; every other answer of the query fails the move before
\* the push.
C10_PushOnlyToRemoteDefault ==
    (Issued("push") \/ mv.pc = "push") => obs.remote_head = base_branch

\* the commits this run has created on the base branch
Created == SubSeq(mainline(repo), Len(obs.pre.mainline) + 1, Len(mainline(repo)))

\* C11: the date check lets the move go on to the push only when the author
\* date of every commit the move created equals today's date in the local
\* calendar.
C11_DateCheckUsesLocalToday ==
    [][(mv.pc = "validate" /\ mv'.pc = "push") =>
          \A c \in Range(Created) : c.ad = clock.loc]_vars

\* C12: every commit a move creates on the base branch (plain replay, 'ours',
\* 'theirs') has as author date and as committer date the one timestamp taken
\* at the start of the replay, whatever the date of the original commit.
C12_CreatedCommitsCarryStartDate ==
    obs.runs > 0 =>
        /\ \A c \in Range(Created) :
              c.ad = mv.now_iso_value /\ c.cd = mv.now_iso_value
        /\ mv.mode = "gui" => Len(Created) = Len(mv.processed)
        /\ \A c \in Range(mv.processed) : c.ad # mv.now_iso_value

C12_Witness ==
    /\ Len(Created) = 2 /\ Issued("checkout --ours")
    /\ clock.utc > mv.now_iso_value

\* C13: the date and identity checks inspect exactly the commits this move
\* created on the base branch: no commit that was there before the move, no
\* commit of the working set itself.
C13_ValidationInspectsCreatedCommits ==
    obs.chk # NoChecks =>
        /\ obs.inspected = Created
        /\ Len(obs.inspected) = Replayed
        /\ \A c \in Range(obs.inspected) :
              c \notin Range(obs.pre.mainline) /\ c \notin Range(PendingBefore)

C13_Witness ==
    /\ obs.chk # NoChecks /\ obs.chk.remote = "pass"
    /\ Len(mv.processed) = 1 /\ Len(mv.commits) = 2

LastCmd(o) == IF o.cmds = <<>> THEN "none" ELSE o.cmds[Len(o.cmds)]

\* C14: a commit the replay finds already applied (its cherry-pick fails with
\* nothing to commit, or succeeds with no change) is skipped: it is not added to
\* processed, no commit is made for it, and the replay goes on with the next
\* commit.
C14_AlreadyAppliedCommitsAreSkipped ==
    [][(/\ mv.pc = "cherry_pick"
        /\ mv' # mv
        /\ \/ mv.commits[mv.i].chg \in Changes(HeadHist(repo))
           \/ LastCmd(obs') = "cherry-pick --skip")
       => (/\ mv'.processed = mv.processed
           /\ mainline(repo') = mainline(repo)
           /\ mv'.i = mv.i + 1
           /\ obs'.outcome # "failed")]_vars

\* C15: when the replay loop ends with processed empty, the move checks out the
\* branch that was checked out before the move, pops the stash if it made one,
\* and returns without error and without validation, push, backup or
\* reconciliation.
C15_NoOpReturnsToOriginalBranch ==
    [][(mv.mode = "gui" /\ mv.pc = "after_loop" /\ mv.processed = <<>> /\ mv' # mv)
       => (/\ mv'.pc = "idle" /\ obs'.outcome = "noop"
           /\ repo'.HEAD = obs.pre.HEAD
           /\ mv.stashed => LastCmd(obs') = "stash pop"
           /\ obs'.chk = NoChecks
           /\ mainline(repo') = mainline(repo) /\ local_commit(repo') = local_commit(repo)
           /\ repo'.origin = repo.origin /\ repo'.backups = repo.backups)]_vars

\* C16: when the user chooses 'abort' at a conflict (the CLI aborts on every
\* conflict), the cherry-pick in progress is rolled back and the move fails at
\* once: no later commit is tried, nothing is pushed, local_commit is as
\* before, and the repository is on the base branch with exactly the commits
\* processed before the conflict.
C16_AbortRollsBackAndFails ==
    (Ended /\ mv.choice = "abort") =>
        /\ obs.outcome = "failed"
        /\ ~repo.unmerged /\ repo.inprog = {}
        /\ LastCmd(obs) = "cherry-pick --abort"
        /\ ~Issued("push") /\ repo.origin = obs.pre.origin
        /\ local_commit(repo) = obs.pre.local_commit
        /\ repo.HEAD = base_branch
        /\ IsPrefix(obs.pre.mainline, mainline(repo))
        /\ Len(Created) = Replayed

\* C17: a push that fails ends the move as failed, with no second push; the
\* base branch keeps the commits the replay created, and local_commit, the
\* backup branches and the stash list are left as they were.
C17_FailedPushEndsMove ==
    [][(mv.pc = "push" /\ obs' # obs /\ ~obs'.pushed)
       => (/\ mv'.pc = "idle" /\ obs'.outcome = "failed"
           /\ obs'.cmds = Append(obs.cmds, "push")
           /\ ~Issued("push")
           /\ repo' = repo
           /\ IsPrefix(obs.pre.mainline, mainline(repo)) /\ Len(Created) = Replayed
           /\ Len(Created) > 0
           /\ local_commit(repo) = obs.pre.local_commit
           /\ repo.backups = obs.pre.backups)]_vars

C17_Witness ==
    /\ Ended /\ obs.outcome = "failed" /\ LastCmd(obs) = "push" /\ ~obs.pushed
    /\ mv.stashed /\ repo.stash # <<>>

\* no pending commit carries a change the base branch already holds
NoneApplied == \A c \in Range(PendingBefore) : c.chg \notin Changes(obs.pre.mainline)

\* the replay loop of the run went through its whole working set
LoopTraversed == mv.commits # <<>> /\ mv.i > Len(mv.commits)

C19_SkipContinuesAndNothingRemains ==
    [][/\ (mv.pc = "ask_conflict" /\ mv' # mv /\ mv'.choice = "skip")
          => (/\ obs'.outcome # "failed"
              /\ mv'.i = mv.i + 1
              /\ mv'.processed = mv.processed
              /\ ~repo'.unmerged)
       /\ (mv.pc = "reconcile" /\ mv' # mv /\ mv.choice = "skip"
              /\ mv.num = mv.pending /\ LoopTraversed)
          => mv'.remaining = <<>>]_vars

\* what a cherry-pick carries over from a commit
Carried(s) == [k \in DOMAIN s |-> [chg |-> s[k].chg, ad |-> s[k].ad, au |-> s[k].au]]

\* the originally pending commits that were not moved and are not on the base branch
Unmoved ==
    SelectSeq(PendingBefore,
              LAMBDA c : c \notin Range(mv.processed)
                         /\ c.chg \notin Changes(mainline(repo)))

\* C20: after a successful reconciliation the commits of local_commit that are
\* not on the base branch are the originally pending commits that were not
\* moved, in their order and with their stored author and author date; a
\* remaining commit whose change the base branch already holds is skipped and
\* does not fail the reconciliation.
C20_ReconciliationKeepsUnmovedCommits ==
    [][/\ (mv.pc = "restore" /\ mv' # mv)
          => Carried(rev_list(mainline(repo), local_commit(repo))) = Carried(Unmoved)
       /\ (mv.pc = "reconcile_loop" /\ mv' # mv
              /\ mv.remaining[mv.j].chg \in Changes(HeadHist(repo)))
          => (/\ obs'.outcome # "failed"
              /\ mv'.j = mv.j + 1
              /\ local_commit(repo') = local_commit(repo))]_vars

\* the reconciliation step run on repository r when nothing remains:
\* checkout local_commit and reset --hard <base> (lines 631-633)
Reconciled(r) == reset_hard(checkout(r, "local_commit"), mainline(r))

\* C21: reconciliation is idempotent: run again directly after a
\* reconciliation that left no remaining commit, it changes nothing, and
\* local_commit and the base branch are the same commit afterwards.
C21_ReconciliationIdempotent ==
    (/\ obs.pushed /\ Issued("reset")
     /\ mv.pc \in {"reconcile_loop", "restore"}
     /\ PendingNow = 0)
    => /\ checkout_ok(repo, "local_commit")
       /\ Reconciled(repo) = repo
       /\ local_commit(Reconciled(repo)) = mainline(Reconciled(repo))
       /\ rev_list(mainline(Reconciled(repo)), local_commit(Reconciled(repo))) = <<>>

C21_Witness ==
    /\ mv.pc = "restore" /\ obs.pushed /\ Issued("reset") /\ PendingNow = 0
    /\ Len(mv.remaining) = 2


\* C22: after a successful move that created a stash, the branch that was
\* checked out before the move is checked out and then the stash is popped,
\* once; a failing pop is only a warning and the move still ends completed.
C22_StashRestoredOnOriginalBranch ==
    [][(/\ mv.pc = "restore" /\ mv.stashed /\ mv' # mv
        /\ checkout_ok(repo, obs.pre.HEAD))
       => (/\ mv'.pc = "idle"
           /\ obs'.outcome = "completed"
           /\ repo'.HEAD = obs.pre.HEAD
           /\ obs'.cmds = obs.cmds \o <<"checkout", "stash pop">>
           /\ (repo'.stash # repo.stash \/ obs'.warnings # obs.warnings))]_vars


RECURSIVE IsSubseq(_, _)
\* a is b with some elements left out, order kept
IsSubseq(a, b) ==
    IF a = <<>> THEN TRUE
    ELSE IF b = <<>> THEN FALSE
    ELSE IF Head(a) = Head(b) THEN IsSubseq(Tail(a), Tail(b))
    ELSE IsSubseq(a, Tail(b))

\* the positions of the replay loop of action_move
InReplay(m) == m.mode = "gui" /\ m.pc \in {"ask_apply", "cherry_pick", "ask_conflict", "after_loop"}

\* what holds of processed and the base branch at every point of the loop
ReplayInv(m, r, o) ==
    /\ IsPrefix(m.commits, rev_list(o.pre.mainline, o.pre.local_commit))
    /\ Len(m.commits) = m.num
    /\ IsSubseq(m.processed, m.commits)
    /\ \A k \in DOMAIN m.processed :
          \E j \in DOMAIN m.commits : j < m.i /\ m.commits[j] = m.processed[k]
    /\ IsPrefix(o.pre.mainline, mainline(r))
    /\ Len(mainline(r)) - Len(o.pre.mainline) = Len(m.processed)

\* C27: at every point of the replay loop, processed is a subsequence of the
\* working set (the first num pending commits, oldest first) in the same
\* order; a commit is attempted at most once (the loop index never goes back
\* and moves on after every finished attempt); a commit is appended to
\* processed exactly when its step created a new commit on the base branch;
\* and the commits added to the base branch so far number len(processed).
C27_ProcessedTracksMainline ==
    [][/\ InReplay(mv') => ReplayInv(mv', repo', obs')
       /\ (InReplay(mv) /\ mv' # mv) =>
            /\ mv'.i >= mv.i /\ mv'.i <= mv.i + 1
            /\ mv'.commits = mv.commits
            /\ (mv.pc \in {"cherry_pick", "ask_conflict"} /\ mv'.pc \notin {"idle", "ask_conflict"})
                  => mv'.i = mv.i + 1
            /\ (mv'.processed # mv.processed) <=> (mainline(repo') # mainline(repo))
            /\ (mv'.processed # mv.processed) =>
                  /\ mv'.processed = Append(mv.processed, mv.commits[mv.i])
                  /\ Len(mainline(repo')) = Len(mainline(repo)) + 1
                  /\ mv'.i = mv.i + 1]_vars

C27_Witness ==
    /\ InReplay(mv) /\ mv.pc = "after_loop"
    /\ Len(mv.commits) = 2 /\ Len(mv.processed) = 1
    /\ mv.processed[1] = mv.commits[2]
    /\ NewOnMainline = 1


\* the step-mode replay loop was left by a declined confirmation
DeclinedAt(m) ==
    /\ m.mode = "gui" /\ m.step_mode
    /\ m.i <= Len(m.commits)
    /\ m.pc \in {"after_loop", "validate", "push", "backup", "reconcile",
                 "reconcile_loop", "restore"}

\* C28: in step mode, declining the confirmation for a commit ends the replay
\* loop without error: that commit and the later ones are never
\* cherry-picked onto the base branch, the commits already processed stay on
\* the base branch, and the move goes on with validation (and from there the
\* push) when processed is not empty.
C28_DeclineEndsLoop ==
    [][/\ (mv.pc = "ask_apply" /\ mv' # mv /\ mv'.pc # "cherry_pick") =>
            /\ mv'.pc = "after_loop" /\ DeclinedAt(mv')
            /\ mv'.i = mv.i /\ mv'.processed = mv.processed
            /\ repo' = repo /\ obs' = obs
       /\ (DeclinedAt(mv) /\ mv' # mv) =>
            /\ mv'.pc \notin {"ask_apply", "cherry_pick", "ask_conflict"}
            /\ mv'.processed = mv.processed
            /\ mv'.pc # "idle" => DeclinedAt(mv')
            /\ mv.pc \in {"after_loop", "validate"} =>
                   /\ mainline(repo') = mainline(repo)
                   /\ Len(Created) = Len(mv.processed)
            /\ (mv.pc = "after_loop" /\ mv.processed # <<>>) =>
                   /\ mv'.pc = "validate"
                   /\ repo' = repo /\ obs' = obs
            /\ (mv.pc = "validate" /\ mv'.pc # "idle") => mv'.pc = "push"
            /\ (mv.pc = "push" /\ obs'.pushed) => IsPrefix(mainline(repo), repo'.origin)]_vars

C28_Witness ==
    /\ DeclinedAt(mv) /\ mv.pc = "restore" /\ obs.pushed
    /\ mv.i = 2 /\ Len(mv.processed) = 1


\* C29: whatever working tree passed the cleanliness guard (untracked files
\* do not make a tree unclean), when the cherry-pick --no-commit of a commit
\* succeeds and stages no change, the commit is skipped: no commit is
\* attempted, no error is raised, and the replay goes on with the next commit.
C29_EmptyPickSkippedOnAnyCleanTree ==
    [][(/\ mv.mode = "gui" /\ mv.pc = "cherry_pick" /\ mv' # mv
        /\ is_clean(repo)
        /\ cherry_pick_outcomes(repo, mv.commits[mv.i]) = {"empty"})
       => (/\ obs'.cmds = Append(obs.cmds, "cherry-pick")
           /\ obs'.outcome # "failed"
           /\ mv'.pc = LoopPc(mv') /\ mv'.i = mv.i + 1
           /\ mv'.processed = mv.processed
           /\ repo' = repo)]_vars


\* C30: at a conflict, taking a side ('ours' or 'theirs') resolves every
\* conflicted file to that side and stages it, creates exactly one new commit
\* on the base branch, appends the commit to processed, and the replay goes on.
C30_TakingASideCommitsAndContinues ==
    [][(/\ mv.mode = "gui" /\ mv.pc = "ask_conflict" /\ mv' # mv
        /\ mv'.choice \in {"ours", "theirs"})
       => (/\ ~repo'.unmerged
           /\ Len(mainline(repo')) = Len(mainline(repo)) + 1
           /\ IsPrefix(mainline(repo), mainline(repo'))
           /\ mv'.processed = Append(mv.processed, mv.commits[mv.i])
           /\ mv'.i = mv.i + 1 /\ mv'.pc = LoopPc(mv')
           /\ obs'.outcome # "failed")]_vars


\* ===================================== the repository scan and the branch switch
\* A second state machine over the same variables: repo is the repository seen
\* through its refs (local branches refs/heads, remote-tracking branches
\* rrefs/rheads, the symbolic ref origin/HEAD, HEAD and the commit of a
\* detached HEAD); a history is the sequence of its commit ids; state is the
\* RepoState the last scan produced; mv is the result of the last operation
\* (obs is not used).

\* commits made outside the application during a run of the model
MaxCommits == 1

LocalNames == {"main", "master", "dev", "local_commit", "trunk"}

RemoteNames == {"main", "master", "trunk"}

\* the history every branch of a fetched repository starts with, and the
\* history of the remote branches, one commit ahead
RootHist == <<1>>

RemoteHist == <<1, 9>>

\* git show-ref --verify --quiet refs/heads/<b>
branch_exists(r, b) == b \in r.refs

\* git show-ref --verify --quiet refs/remotes/origin/<b>
remote_exists(r, b) == b \in r.rrefs

\* the commits reachable from HEAD: none on a branch that is not born yet
head_commit(r) ==
    IF r.HEAD = "HEAD" THEN r.detached
    ELSE IF r.HEAD \in r.refs THEN r.heads[r.HEAD]
    ELSE <<>>

\* the commits reachable from a revision name
tip(r, name) == IF name = "HEAD" THEN head_commit(r) ELSE r.heads[name]

\* git branch <b> <start>: fails when the start point names no commit
git_branch(r, b, start) ==
    IF start = <<>> THEN r
    ELSE [r EXCEPT !.refs = @ \cup {b}, !.heads[b] = start]

\* git checkout -b <b> <start>: refused with an unmerged index or without a commit
checkout_b_ok(r, start) == ~r.unmerged /\ start # <<>>

checkout_b(r, b, start) ==
    [r EXCEPT !.refs = @ \cup {b}, !.heads[b] = start, !.HEAD = b]

\* git checkout -b <b>: HEAD moves to the new name; the ref is written only
\* when HEAD has a commit
checkout_b_here(r, b) ==
    IF head_commit(r) = <<>> THEN [r EXCEPT !.HEAD = b]
    ELSE [r EXCEPT !.refs = @ \cup {b}, !.heads[b] = head_commit(r), !.HEAD = b]

\* mutant: no main is created
ensure_main_branch_never(r) == r

\* repo_scanner.py lines 28-52: a local main is created when it is missing
ensure_main_branch(r) ==
    IF branch_exists(r, "main") THEN r
    ELSE IF branch_exists(r, "master") THEN git_branch(r, "main", r.heads["master"])
    ELSE IF remote_exists(r, "main") THEN git_branch(r, "main", r.rheads["main"])
    ELSE IF remote_exists(r, "master") THEN git_branch(r, "main", r.rheads["master"])
    ELSE git_branch(r, "main", head_commit(r))

\* a printed revision name: an optional "origin/" in front of a name
RevName(prefix, name) == [prefix |-> prefix, name |-> name]

EmptyOutput == RevName("", "")

\* git rev-parse --abbrev-ref origin/HEAD: the target of the symbolic ref with
\* exit status 0, or the argument echoed back with exit status 128
rev_parse_origin_head(r) ==
    IF r.origin_head # ""
    THEN [ok |-> TRUE, stdout |-> RevName("origin/", r.origin_head)]
    ELSE [ok |-> FALSE, stdout |-> RevName("origin/", "HEAD")]

\* str.removeprefix("origin/")
removeprefix(s) == s.name

\* repo_scanner.py lines 12-25: the output is used only when git exits with 0
scanner_detect_base_branch(r) ==
    IF branch_exists(r, "main") THEN "main"
    ELSE IF branch_exists(r, "master") THEN "master"
    ELSE LET p == rev_parse_origin_head(r)
             origin_head == IF p.ok THEN p.stdout ELSE EmptyOutput
         IN  IF origin_head # EmptyOutput /\ origin_head # RevName("", "HEAD")
             THEN removeprefix(origin_head)
             ELSE "main"

\* push.py lines 49-66: the output is used whatever the exit status
detect_base_branch(r) ==
    IF branch_exists(r, "main") THEN "main"
    ELSE IF branch_exists(r, "master") THEN "master"
    ELSE LET origin_head == rev_parse_origin_head(r).stdout
         IN  IF origin_head # EmptyOutput /\ origin_head # RevName("", "HEAD")
             THEN removeprefix(origin_head)
             ELSE "main"

\* git symbolic-ref --short -q HEAD, "HEAD" when detached
current_branch(r) == r.HEAD

\* git rev-list --count a..b
rev_list_count(a, b) == Len(rev_list(a, b))

\* repo_scanner.py lines 70-97
pending_count(r, base, current) ==
    IF current = "local_commit"
    THEN IF ~branch_exists(r, "local_commit") THEN 0
         ELSE IF ~branch_exists(r, base) THEN 0
         ELSE rev_list_count(r.heads[base], r.heads["local_commit"])
    ELSE IF current = base
    THEN IF ~branch_exists(r, base) THEN 0
         ELSE IF remote_exists(r, base)
         THEN rev_list_count(r.rheads[base], r.heads[base])
         ELSE Len(r.heads[base])
    ELSE IF ~branch_exists(r, base) THEN 0
         ELSE rev_list_count(r.heads[base], tip(r, current))

\* push.py lines 108-114
repo_pending_count(r, base) ==
    IF ~branch_exists(r, "local_commit") THEN 0
    ELSE IF ~branch_exists(r, base) THEN 0
    ELSE rev_list_count(r.heads[base], r.heads["local_commit"])

\* repo_scanner.py lines 113-131, on the repository after _ensure_main_branch
RepoScanner_scan(r) ==
    LET base == scanner_detect_base_branch(r)
        branch == current_branch(r)
    IN  [base_branch |-> base, current_branch |-> branch,
         local_exists |-> (branch = "local_commit" \/ branch_exists(r, "local_commit")),
         commit_count |-> pending_count(r, base, branch)]

\* push.py lines 124-140, on the repository after ensure_main_branch
scan_repos(r) ==
    LET base == detect_base_branch(r)
        branch == current_branch(r)
        local_exists == branch = "local_commit" \/ branch_exists(r, "local_commit")
    IN  [base_branch |-> base, current_branch |-> branch,
         local_exists |-> local_exists,
         commit_count |-> IF local_exists THEN repo_pending_count(r, base) ELSE 0]

\* the outcome of a branch operation: whether it returned, and the repository after it
Done(r) == [ok |-> TRUE, repo |-> r]

Raised(r) == [ok |-> FALSE, repo |-> r]

\* the caller passed no current branch
None == ""

\* branch_manager.py lines 18-37 (push.py lines 166-178 with current_branch given)
switch_to_local_commit(r, base, current) ==
    IF branch_exists(r, "local_commit")
    THEN IF checkout_ok(r, "local_commit") THEN Done(checkout(r, "local_commit"))
         ELSE Raised(r)
    ELSE LET start_ref == IF branch_exists(r, base) THEN base
                          ELSE IF current # None THEN current ELSE base
         IN  IF start_ref # "" /\ branch_exists(r, start_ref)
             THEN IF checkout_b_ok(r, r.heads[start_ref])
                  THEN Done(checkout_b(r, "local_commit", r.heads[start_ref]))
                  ELSE Raised(r)
             ELSE IF remote_exists(r, base)
             THEN IF checkout_b_ok(r, r.rheads[base])
                  THEN Done(checkout_b(r, "local_commit", r.rheads[base]))
                  ELSE Raised(r)
             ELSE Done(checkout_b_here(r, "local_commit"))

\* mutant: a mainline found nowhere is created at HEAD
switch_to_base_creating(r, base) ==
    IF branch_exists(r, base)
    THEN IF checkout_ok(r, base) THEN Done(checkout(r, base)) ELSE Raised(r)
    ELSE IF remote_exists(r, base)
    THEN IF checkout_b_ok(r, r.rheads[base])
         THEN Done(checkout_b(r, base, r.rheads[base]))
         ELSE Raised(r)
    ELSE Done(checkout_b_here(r, base))

\* branch_manager.py lines 40-50
switch_to_base(r, base) ==
    IF branch_exists(r, base)
    THEN IF checkout_ok(r, base) THEN Done(checkout(r, base)) ELSE Raised(r)
    ELSE IF remote_exists(r, base)
    THEN IF checkout_b_ok(r, r.rheads[base])
         THEN Done(checkout_b(r, base, r.rheads[base]))
         ELSE Raised(r)
    ELSE Raised(r)


\* a repository with local branches refs and HEAD on head
RefRepo(refs, head, rrefs, oh, um) ==
    [refs |-> refs,
     heads |-> [b \in LocalNames |-> IF b \in refs THEN RootHist ELSE <<>>],
     rrefs |-> rrefs,
     rheads |-> [b \in RemoteNames |-> IF b \in rrefs THEN RemoteHist ELSE <<>>],
     origin_head |-> oh,
     HEAD |-> head,
     detached |-> IF head = "HEAD" THEN RootHist ELSE <<>>,
     unmerged |-> um, inprog |-> {}, next_oid |-> 2]

\* the result of an operation
Result(op, ok, ret) == [op |-> op, ok |-> ok, ret |-> ret]

\* what a clone or a fetch can have left under refs/remotes/origin: the
\* remote-tracking branches and the target of origin/HEAD ("" when unset)
RemoteConfigs ==
    {<<{}, "">>, <<{"main"}, "main">>, <<{"main"}, "">>, <<{"master"}, "master">>,
     <<{"trunk"}, "trunk">>, <<{"main", "trunk"}, "trunk">>}

\* refresh_repos / the scan at the head of the main loop, on repository r
Rescan(app, r) ==
    IF app = "gui" THEN RepoScanner_scan(ensure_main_branch(r))
    ELSE scan_repos(ensure_main_branch(r))

\* the application starts with a scan (push_gui.py line 160, push.py line 419) of
\* a repository in any state: freshly initialised with no commit, or with
\* some local branches and HEAD on one of them or detached
InitRefs ==
    \E refs \in SUBSET {"main", "master", "dev", "local_commit"},
       head \in {"main", "master", "dev", "local_commit", "HEAD"},
       rc \in RemoteConfigs,
       um \in BOOLEAN, app \in {"gui", "cli"}, nm \in {"", "me"} :
       /\ IF refs = {} THEN head \in {"main", "dev"} /\ ~um
          ELSE head \in refs \cup {"HEAD"}
       /\ LET r == RefRepo(refs, head, rc[1], rc[2], um) IN
          /\ repo = ensure_main_branch(r)
          /\ state = Rescan(app, r)
       /\ obs = <<>>
       /\ cfg = [app |-> app, user_name |-> nm, user_email |-> "me@x"]
       /\ mv = Result("scan", TRUE, "")
       /\ clock = [utc |-> 1, loc |-> 1]

\* push_gui.py lines 256-291: the Refresh button
refresh_repos ==
    /\ cfg.app = "gui"
    /\ repo' = ensure_main_branch(repo)
    /\ state' = RepoScanner_scan(repo')
    /\ mv' = Result("scan", TRUE, "")
    /\ UNCHANGED <<cfg, clock, obs>>

\* push.py lines 418-419: the scan at the head of the main loop
cli_scan_repos ==
    /\ cfg.app = "cli"
    /\ repo' = ensure_main_branch(repo)
    /\ state' = scan_repos(repo')
    /\ mv' = Result("scan", TRUE, "")
    /\ UNCHANGED <<cfg, clock, obs>>

\* the mainline detection applied to the repository as it is
detect ==
    /\ mv' = Result("detect", TRUE,
                    IF cfg.app = "gui" THEN scanner_detect_base_branch(repo)
                    ELSE detect_base_branch(repo))
    /\ UNCHANGED <<repo, state, cfg, clock, obs>>

\* push_gui.py lines 386-402: no current branch is passed; the list is
\* refreshed only when the switch returned
action_switch ==
    /\ cfg.app = "gui"
    /\ IF ~ensure_identity(cfg)
       THEN /\ mv' = Result("identity", FALSE, "")
            /\ UNCHANGED <<repo, state>>
       ELSE LET to_base == state.current_branch = "local_commit"
                res == IF to_base THEN switch_to_base(repo, state.base_branch)
                       ELSE switch_to_local_commit(repo, state.base_branch, None)
            IN  /\ mv' = Result(IF to_base THEN "switch_to_base" ELSE "switch_to_local_commit",
                                res.ok,
                                IF ~res.ok THEN ""
                                ELSE IF to_base THEN state.base_branch ELSE "local_commit")
                /\ repo' = IF res.ok THEN ensure_main_branch(res.repo) ELSE res.repo
                /\ state' = IF res.ok THEN RepoScanner_scan(repo') ELSE state
    /\ UNCHANGED <<cfg, clock, obs>>

\* push.py lines 326-349, action 1: the snapshot's current branch is passed;
\* the main loop scans again whatever happened
repo_menu_switch ==
    /\ cfg.app = "cli"
    /\ IF ~ensure_identity(cfg)
       THEN /\ mv' = Result("identity", FALSE, "")
            /\ repo' = ensure_main_branch(repo)
       ELSE LET to_base == state.current_branch = "local_commit"
                res == IF to_base THEN switch_to_base(repo, state.base_branch)
                       ELSE switch_to_local_commit(repo, state.base_branch,
                                                   state.current_branch)
            IN  /\ mv' = Result(IF to_base THEN "switch_to_base" ELSE "switch_to_local_commit",
                                res.ok,
                                IF ~res.ok THEN ""
                                ELSE IF to_base THEN state.base_branch ELSE "local_commit")
                /\ repo' = ensure_main_branch(res.repo)
    /\ state' = scan_repos(repo')
    /\ UNCHANGED <<cfg, clock, obs>>

\* the user, outside the application: a commit on the checked-out branch
ext_commit ==
    /\ repo.next_oid < 2 + MaxCommits
    /\ ~repo.unmerged
    /\ LET h == Append(head_commit(repo), repo.next_oid) IN
       repo' = IF repo.HEAD = "HEAD"
               THEN [repo EXCEPT !.detached = h, !.next_oid = @ + 1]
               ELSE [repo EXCEPT !.refs = @ \cup {repo.HEAD}, !.heads[repo.HEAD] = h,
                                 !.next_oid = @ + 1]
    /\ mv' = Result("ext", TRUE, "")
    /\ UNCHANGED <<cfg, clock, state, obs>>

\* the user, outside the application: git checkout of another local branch
ext_checkout ==
    /\ \E b \in repo.refs \ {repo.HEAD} :
          /\ checkout_ok(repo, b)
          /\ repo.HEAD \in repo.refs \cup {"HEAD"}
          /\ repo' = [checkout(repo, b) EXCEPT !.detached = <<>>]
    /\ mv' = Result("ext", TRUE, "")
    /\ UNCHANGED <<cfg, clock, state, obs>>

\* the user, outside the application: git branch -D of a branch that is not checked out
ext_branch_delete ==
    /\ \E b \in repo.refs \ {repo.HEAD} :
          repo' = [repo EXCEPT !.refs = @ \ {b}, !.heads[b] = <<>>]
    /\ mv' = Result("ext", TRUE, "")
    /\ UNCHANGED <<cfg, clock, state, obs>>

NextRefs ==
    \/ refresh_repos
    \/ cli_scan_repos
    \/ detect
    \/ action_switch
    \/ repo_menu_switch
    \/ ext_commit
    \/ ext_checkout
    \/ ext_branch_delete

SpecRefs == InitRefs /\ [][NextRefs]_vars


\* the mainline the detection is specified to find in repository r
SpecifiedMainline(r) ==
    IF "main" \in r.refs THEN "main"
    ELSE IF "master" \in r.refs THEN "master"
    ELSE IF r.origin_head \notin {"", "HEAD"} THEN r.origin_head
    ELSE "main"

\* C23: the mainline detection returns 'main' if a local main exists; else
\* 'master' if a local master exists; else the remote's symbolic default
\* without its 'origin/' prefix when that resolves to something other than
\* 'HEAD'; else 'main'.  It depends on nothing else and changes no ref.
C23_MainlineDetection ==
    [][(mv'.op = "detect" /\ mv' # mv) =>
          /\ mv'.ret = SpecifiedMainline(repo)
          /\ repo' = repo]_vars


\* the start point the switch to local_commit is specified to create the
\* branch from, in repository r with mainline base
SpecifiedStart(r, base) ==
    IF base \in r.refs THEN r.heads[base]
    ELSE IF r.HEAD \in r.refs THEN r.heads[r.HEAD]
    ELSE IF base \in r.rrefs THEN r.rheads[base]
    ELSE head_commit(r)

\* C24: switch_to_local_commit checks local_commit out without creating a
\* branch when it exists; otherwise it creates it from the mainline if that
\* exists locally, else from the current branch if that exists locally, else
\* from origin/<mainline> if that exists, else at the current HEAD.  Whenever
\* it returns, it returns 'local_commit' and local_commit is checked out.
C24_SwitchToLocalCommit ==
    [][(mv'.op = "switch_to_local_commit" /\ mv'.ok) =>
          /\ mv'.ret = "local_commit"
          /\ repo'.HEAD = "local_commit"
          /\ "local_commit" \in repo.refs =>
                /\ repo'.refs \ {"main"} = repo.refs \ {"main"}
                /\ repo'.heads["local_commit"] = repo.heads["local_commit"]
          /\ "local_commit" \notin repo.refs =>
                repo'.heads["local_commit"] = SpecifiedStart(repo, state.base_branch)]_vars


\* the local branches and what they point to
LocalRefs(r) == [b \in r.refs |-> r.heads[b]]

\* C25: switch_to_base checks the mainline out if it exists locally; else, if
\* origin/<mainline> exists, it creates the local mainline from it and
\* checks it out; else it fails with an error and neither the checked-out
\* branch nor any ref has changed.  On success the checked-out branch is the
\* mainline.
C25_SwitchToBase ==
    [](\A base \in LocalNames \cup {"HEAD"} :
         LET res == switch_to_base(repo, base) IN
         /\ res.ok => res.repo.HEAD = base
         /\ (res.ok /\ base \in repo.refs) => LocalRefs(res.repo) = LocalRefs(repo)
         /\ (res.ok /\ base \notin repo.refs) =>
               /\ base \in repo.rrefs
               /\ LocalRefs(res.repo) = [b \in repo.refs \cup {base} |->
                                            IF b = base THEN repo.rheads[base]
                                            ELSE repo.heads[b]]
         /\ (base \notin repo.refs /\ base \notin repo.rrefs) => ~res.ok
         /\ ~res.ok => res.repo = repo
         /\ (~repo.unmerged /\ (base \in repo.refs \/ base \in repo.rrefs)) => res.ok)
    /\ [][(mv'.op = "switch_to_base" /\ mv' # mv) =>
            LET res == switch_to_base(repo, state.base_branch) IN
            /\ mv'.ok = res.ok
            /\ mv'.ok => mv'.ret = state.base_branch /\ repo'.HEAD = state.base_branch
            /\ ~mv'.ok => repo' \in {repo, ensure_main_branch(repo)}]_vars

C25_Witness ==
    /\ mv.op = "switch_to_base" /\ mv.ok /\ mv.ret = "main"
    /\ repo.HEAD = "main" /\ repo.heads["main"] = RemoteHist
    /\ "master" \in repo.refs


\* the count a scan is specified to report for RepoState s of repository r
SpecifiedPending(r, s) ==
    IF s.current_branch = "local_commit"
    THEN rev_list_count(r.heads[s.base_branch], r.heads["local_commit"])
    ELSE rev_list_count(r.rheads[s.base_branch], r.heads[s.base_branch])

\* C26: the pending count a scan reports is never negative and is derived
\* from the refs as they are at the time of the scan, never from an earlier
\* value: on local_commit it is the number of commits of local_commit not
\* reachable from the mainline, on the mainline the number of commits of the
\* mainline not reachable from origin/<mainline>.
C26_PendingCountFromRefs ==
    [][(mv'.op = "scan") =>
          /\ state'.commit_count >= 0
          /\ state'.current_branch = repo'.HEAD
          /\ (/\ state'.base_branch \in repo'.refs
              /\ state'.current_branch \in {"local_commit", state'.base_branch}
              /\ state'.current_branch \in repo'.refs
              /\ state'.current_branch = state'.base_branch
                    => state'.base_branch \in repo'.rrefs)
             => state'.commit_count = SpecifiedPending(repo', state')]_vars


\* C31: in a GUI move the creation of the backup branch from the tip of
\* local_commit is attempted before every reset of local_commit; when it
\* succeeds the backup branch points to the tip local_commit had before the
\* rewrite; when it fails the reconciliation still goes on, with a warning.
C31_BackupBeforeEveryReset ==
    [][/\ (mv.mode = "gui" /\ mv.pc = "backup" /\ mv' # mv) =>
            /\ mv'.pc = "reconcile"
            /\ obs'.cmds = Append(obs.cmds, "branch")
            /\ obs'.outcome # "failed"
            /\ local_commit(repo') = local_commit(repo)
            /\ \/ repo'.backups = Append(repo.backups, local_commit(repo))
               \/ repo'.backups = repo.backups /\ "backup failed" \in obs'.warnings
       /\ (mv.mode = "gui" /\ mv.pc = "reconcile" /\ mv' # mv /\ LastCmd(obs') = "reset") =>
            /\ LastCmd(obs) = "branch"
            /\ "backup failed" \notin obs.warnings =>
                  /\ repo.backups # <<>>
                  /\ repo.backups[Len(repo.backups)] = local_commit(repo)
                  /\ repo'.backups = repo.backups]_vars

C31_Witness ==
    /\ mv.mode = "gui" /\ mv.pc = "restore" /\ Issued("reset")
    /\ repo.backups # <<>>
    /\ repo.backups[Len(repo.backups)] = obs.pre.local_commit
    /\ local_commit(repo) # obs.pre.local_commit


\* the first position of command c in the commands of the run, 0 when absent
FirstCmd(c) ==
    IF Issued(c) THEN CHOOSE k \in DOMAIN obs.cmds :
                          /\ obs.cmds[k] = c
                          /\ \A j \in 1..(k - 1) : obs.cmds[j] # c
    ELSE 0

\* the abort command of each operation that can be in progress
AbortOf(op) ==
    CASE op = "MERGE_HEAD" -> "merge --abort"
      [] op = "CHERRY_PICK_HEAD" -> "cherry-pick --abort"
      [] op = "rebase-merge" -> "rebase --abort"

\* C32: when the tree is not clean and the user confirms, the move first
\* aborts every merge, cherry-pick and rebase in progress (a failing abort is
\* reported and does not stop the move), then stashes, untracked files
\* included, and sets stashed, and only then checks the base branch out: no
\* checkout comes before the stash.
C32_AbortThenStashThenCheckout ==
    [][/\ (mv.mode = "gui" /\ mv.pc = "abort_ops" /\ mv' # mv) =>
            /\ mv'.pc = "stash" /\ obs'.outcome # "failed"
            /\ ~mv.stashed /\ ~Issued("checkout") /\ ~Issued("stash push")
            /\ Len(obs'.cmds) = Len(obs.cmds) + Cardinality(repo.inprog)
            /\ \A op \in repo.inprog :
                  /\ \E k \in DOMAIN obs'.cmds : obs'.cmds[k] = AbortOf(op)
                  /\ op \in repo'.inprog => "abort failed" \in obs'.warnings
       /\ (mv.mode = "gui" /\ mv.pc = "stash" /\ mv' # mv) =>
            /\ ~Issued("checkout")
            /\ obs'.cmds = Append(obs.cmds, "stash push")
            /\ mv'.pc # "idle" =>
                  /\ mv'.stashed /\ mv'.pc = "select"
                  /\ ~repo'.dirty /\ ~repo'.untracked
       /\ (mv.mode = "gui" /\ ~obs.pre.clean /\ mv' # mv /\ LastCmd(obs') = "checkout"
           /\ obs'.cmds # obs.cmds) =>
            /\ mv.stashed /\ Issued("stash push")
            /\ FirstCmd("stash push") = Len(AbortCmds(obs.pre.inprog)) + 1]_vars

C32_Witness ==
    /\ mv.mode = "gui" /\ mv.stashed /\ ~obs.pre.clean
    /\ obs.pre.inprog # {}
    /\ Issued("checkout") /\ FirstCmd("stash push") = 2 /\ FirstCmd("checkout") = 3


IsSuffix(a, b) == Len(a) <= Len(b) /\ SubSeq(b, Len(b) - Len(a) + 1, Len(b)) = a

\* C33: every stash pop of a move removes the entry this move created:
\* stashed means that the move's stash push added an entry to the stash
\* list, and the entries that were there before the move are still there,
\* in the same order, when the move returns.
C33_OnlyOwnStashPopped ==
    (mv.mode = "gui" /\ obs.runs > 0) =>
        /\ IsSuffix(obs.pre.stash, repo.stash)
        /\ (mv.stashed /\ ~Issued("stash pop")) =>
              /\ Len(repo.stash) = Len(obs.pre.stash) + 1
              /\ repo.stash[1].owner = "move"


\* C34: during a move the base branch only grows: its history from before
\* the move is a prefix of its history at every state of the move, and no
\* step (conflict skip, conflict abort, empty skip, failed validation,
\* reconciliation) resets it or removes a commit from it.
C34_MainlineOnlyGrows ==
    /\ [](obs.runs > 0 => IsPrefix(obs.pre.mainline, mainline(repo)))
    /\ [][IsPrefix(mainline(repo), mainline(repo'))]_vars

C34_Witness ==
    /\ Ended /\ obs.outcome = "failed" /\ Issued("reset")
    /\ Len(mainline(repo)) > Len(obs.pre.mainline)


\* git can create main in repository r: there is a commit to start it from
MainCreatable(r) ==
    \/ "master" \in r.refs
    \/ "main" \in r.rrefs \/ "master" \in r.rrefs
    \/ head_commit(r) # <<>>

\* C35: a scan creates main before it detects the mainline, so the
\* base_branch it reports is 'main' whenever main existed or could be
\* created; another name is reported only when main is absent and its
\* creation failed.  Ensuring main twice leaves the refs that ensuring it
\* once leaves.
C35_ScanReportsMain ==
    /\ [](/\ ensure_main_branch(ensure_main_branch(repo)) = ensure_main_branch(repo)
          /\ "main" \in repo.refs => ensure_main_branch(repo) = repo)
    /\ [][(mv'.op = "scan") =>
            /\ ("main" \in repo.refs \/ MainCreatable(repo)) =>
                  /\ "main" \in repo'.refs
                  /\ state'.base_branch = "main"
            /\ state'.base_branch # "main" =>
                  /\ "main" \notin repo.refs /\ ~MainCreatable(repo)
                  /\ repo' = repo
            /\ "main" \in repo.refs => repo' = repo]_vars

C35_Witness ==
    /\ mv.op = "scan" /\ state.base_branch = "main"
    /\ repo.HEAD = "dev" /\ "master" \notin repo.refs
    /\ repo.heads["main"] = RemoteHist /\ repo.heads["dev"] = RootHist

\* ======================================================= action_restore
\* git reflog show local_commit -20 prints that many entries at most
ReflogWindow == 20

\* line 666: the entries action_restore reads, newest first
reflog_show(r) == Take(r.reflog, ReflogWindow)

\* lines 671-673: the entries the loop passes over
ReflogSkipped == {"branch: Created from", "reset: moving to main"}

\* lines 669-678: the positions of the entries the loop accepts
GoodEntries(r) ==
    {k \in DOMAIN reflog_show(r) : reflog_show(r)[k].msg \notin ReflogSkipped}

\* lines 669-678: the loop stops at the first accepted entry
local_commit_sha(r) ==
    reflog_show(r)[CHOOSE k \in GoodEntries(r) : \A l \in GoodEntries(r) : k <= l].tip

\* lines 666-685 run without an error: the reflog is read, an entry is found
\* and local_commit can be checked out
restore_ok(r) ==
    /\ "local_commit" \in r.refs
    /\ GoodEntries(r) # {}
    /\ checkout_ok(r, "local_commit")

\* lines 684-685: checkout local_commit, reset --hard <sha>
Restored(r) ==
    log_ref(reset_hard(checkout(r, "local_commit"), local_commit_sha(r)),
            "reset: moving to sha")

\* lines 650-702: the Restore button, pressed while no move runs.  The user
\* confirms or not; an error leaves the snapshot unrefreshed, and so does a
\* failing rev-list of <base>..local_commit after the reset.
action_restore ==
    /\ mv.pc = "idle"
    /\ mv.mode = "gui"
    /\ \E yes \in BOOLEAN :
          IF yes /\ restore_ok(repo)
          THEN /\ repo' = Restored(repo)
               /\ state' = IF base_branch \in repo.refs THEN scan(repo') ELSE state
               /\ obs' = [obs EXCEPT !.restored = TRUE]
          ELSE UNCHANGED <<repo, state, obs>>
    /\ UNCHANGED <<cfg, clock, mv>>

NextRestore ==
    \/ Next
    \/ action_restore

SpecRestore == Init /\ [][NextRestore]_vars

\* C36: a restore run after a completed move's reconciliation puts
\* local_commit back on the tip it had before the reconciliation reset it to
\* the mainline, whether the reconciliation replayed no commit or replayed the
\* remaining ones.
C36_RestoreUndoesRewrite ==
    (Completed /\ Issued("reset") /\ obs.restored)
        => local_commit(repo) = obs.pre.local_commit

\* a restore after a reconciliation that replayed nothing
C36_Witness ==
    /\ Completed /\ Issued("reset") /\ obs.restored
    /\ repo.reflog[1].msg = "reset: moving to sha"
    /\ local_commit(repo) = obs.pre.local_commit
    /\ local_commit(repo) # mainline(repo)

\* C37: a cancelled, empty or unrecognised answer to the conflict prompt is
\* handled like 'abort': the cherry-pick in progress is rolled back and the
\* move fails; the answer is never taken as 'skip' or as a side, so the
\* conflicted commit is not processed, no commit is created for it and no later
\* commit is tried.
C37_CancelledPromptIsAbort ==
    (Ended /\ mv.choice = "raise") =>
        /\ obs.outcome = "failed"
        /\ ~repo.unmerged /\ "CHERRY_PICK_HEAD" \notin repo.inprog
        /\ LastCmd(obs) = "cherry-pick --abort"
        /\ mv.commits[mv.i] \notin Range(mv.processed)
        /\ Len(obs.cmds) >= 2 /\ obs.cmds[Len(obs.cmds) - 1] = "cherry-pick"
        /\ Len(Created) = Replayed
        /\ ~Issued("push")

\* C38: in the numeric keypad dialog, after any sequence of digit, clear,
\* backspace, OK and Cancel events the displayed value is a non-empty decimal
\* string with no superfluous leading zero that never exceeds maxvalue; the
\* dialog closes with no result (Cancel) or, on OK, with the displayed value,
\* which is then within [minvalue, maxvalue].
C38_KeypadDisplayInRange ==
    /\ [](mv.pc = "dialog" =>
            /\ mv.kp # <<>>
            /\ \A k \in DOMAIN mv.kp : mv.kp[k] \in KeyDigits
            /\ Len(mv.kp) > 1 => mv.kp[1] # "0"
            /\ IntOf(mv.kp) <= mv.pending)
    /\ [][(mv.pc = "dialog" /\ mv'.pc # "dialog") =>
            \/ mv'.pc = "idle" /\ obs'.outcome = "cancelled"
            \/ /\ mv'.num = IntOf(mv.kp)
               /\ 1 <= mv'.num /\ mv'.num <= mv.pending]_vars

\* ============================================================ termination
\* the steps of a running move that the code takes by itself once git has
\* returned or the prompt has been answered: every action of a move but a
\* further key of the keypad
MoveStep ==
    \/ dialog_on_ok
    \/ dialog_on_cancel
    \/ ask_step
    \/ ask_stash
    \/ abort_in_progress_ops
    \/ stash_changes
    \/ select_commits
    \/ ask_apply
    \/ cherry_pick
    \/ ask_conflict
    \/ after_loop
    \/ validate
    \/ push
    \/ backup_local_commit
    \/ reconcile
    \/ reconcile_loop
    \/ restore_stash
    \/ cli_input
    \/ cli_ask_stash
    \/ cli_cherry_pick
    \/ cli_validate
    \/ cli_reconcile_loop

\* every git command returns and every prompt is answered
SpecLive == Spec /\ WF_vars(MoveStep)

MoveOutcomes == {"completed", "noop", "nocommits", "cancelled", "failed"}

\* C39: when every git command returns and every prompt is answered a move
\* ends, and it ends as completed, no-op (nothing pending or nothing
\* processed), cancelled or failed.  The replay loop moves to the next commit
\* at each iteration and runs at most targetCount of them, the reconciliation
\* loop at most one per remaining commit, and every state of a running move
\* has a step to take.
C39_MoveTerminates ==
    /\ (mv.pc # "idle") ~> (mv.pc = "idle")
    /\ [](mv.pc # "idle" => ENABLED MoveStep)
    /\ [](mv.pc # "idle" => obs.outcome = "running")
    /\ [](Ended => obs.outcome \in MoveOutcomes)
    /\ [](/\ Len(mv.commits) <= mv.num
          /\ 1 <= mv.i /\ mv.i <= Len(mv.commits) + 1
          /\ 1 <= mv.j /\ mv.j <= Len(mv.remaining) + 1)
    /\ [][(/\ mv.pc \in {"cherry_pick", "ask_conflict"}
           /\ clock' = clock
           /\ mv'.pc \in {"ask_apply", "cherry_pick", "after_loop", "validate"})
            => mv'.i = mv.i + 1]_vars
    /\ [][(mv.pc = "reconcile_loop" /\ clock' = clock /\ mv'.pc # "idle")
            => mv'.j = mv.j + 1]_vars
    /\ [][(mv.pc # "idle" /\ mv'.pc # "idle")
            => /\ mv'.i \in {mv.i, mv.i + 1}
               /\ mv'.j \in {mv.j, mv.j + 1}
               /\ mv'.commits = mv.commits \/ mv.commits = <<>>
               /\ mv'.remaining = mv.remaining \/ mv.remaining = <<>>]_vars

\* a move that went through both loops, more than once through the first
C39_Witness ==
    /\ Ended /\ obs.outcome = "completed"
    /\ Len(mv.commits) = 2 /\ mv.i = 3
    /\ mv.remaining # <<>> /\ mv.j = Len(mv.remaining) + 1

====
